---- MODULE Spec2Model ----
(***************************************************************************)
(* Model of modules/groq_inference.py: class GroqMultimodalProcessor.       *)
(*                                                                         *)
(* The five methods are modelled as a sequential program whose steps are   *)
(* cut at the blocking calls (requests.post).  The file system and the     *)
(* inference provider are the environment: what os.path.exists, open,      *)
(* Image.open and requests.post answer is chosen nondeterministically at   *)
(* the step that asks.                                                     *)
(***************************************************************************)
EXTENDS Integers, Sequences, FiniteSets, TLC

VARIABLES
    top,              \* the public method the caller invoked ("none" when idle)
    pc,               \* position of the (single) thread of control
    user_text,        \* multimodal_chat argument
    user_image_path,  \* multimodal_chat argument
    user_audio_path,  \* multimodal_chat argument
    img_path,         \* generate_image_caption / encode_image argument
    audio_path,       \* speech_to_text argument
    prompt,           \* query_groq_llm argument
    context_parts,    \* multimodal_chat local, line 167
    caption,          \* multimodal_chat local, line 172
    spoken_text,      \* multimodal_chat local, line 178
    chat_response,    \* multimodal_chat local `response`, line 194
    request,          \* payload of the most recent requests.post
    response,         \* what the most recent requests.post produced
    ret,              \* outcome of the method that returned last
    result,           \* outcome handed to the caller of the public method
    img,              \* generate_image_caption local, line 81: what Image.open gave
    wire,             \* history: requests issued / responses received, in order
    fs_log            \* history: file-system calls made, in order

vars == <<top, pc, user_text, user_image_path, user_audio_path, img_path,
          audio_path, prompt, context_parts, caption, spoken_text,
          chat_response, request, response, ret, result, img, wire, fs_log>>

(***************************************************************************)
(* Bounds of the model.                                                    *)
(***************************************************************************)
MaxTextLen == 2       \* longest user_text, in characters
MaxFileLen == 1       \* longest file content, in bytes

(***************************************************************************)
(* Python values: None and str.                                            *)
(***************************************************************************)
None == [t |-> "None", s |-> ""]
PyStr(s) == [t |-> "str", s |-> s]

\* bool(v) for None and str: `not v` is ~Truthy(v)
Truthy(v) == v.t = "str" /\ v.s # ""

\* str(v) / f"{v}"
Str(v) == IF v.t = "None" THEN "None" ELSE v.s

\* How a method ends: it returns a value, or an exception leaves it.
Returned(v) == [kind |-> "return", v |-> v]
Raised(msg) == [kind |-> "raise", v |-> PyStr(msg)]
NoResult == [kind |-> "none", v |-> None]

\* An evaluation that may raise inside a try block.
Ok(v) == [ok |-> TRUE, v |-> v]
Err(msg) == [ok |-> FALSE, v |-> PyStr(msg)]

SeqsUpTo(S, n) == UNION {[1..k -> S] : k \in 0..n}

(***************************************************************************)
(* user_text: a str is kept as its characters, so that strip() is computed.*)
(***************************************************************************)
TextChars == {"h", "i", " "}
Whitespace == {" ", "\t", "\n", "\r", "\f"}

RECURSIVE lstrip(_)
lstrip(cs) ==
    IF cs # <<>> /\ Head(cs) \in Whitespace THEN lstrip(Tail(cs)) ELSE cs

RECURSIVE rstrip(_)
rstrip(cs) ==
    IF cs # <<>> /\ cs[Len(cs)] \in Whitespace
    THEN rstrip(SubSeq(cs, 1, Len(cs) - 1))
    ELSE cs

\* str.strip()
strip(cs) == rstrip(lstrip(cs))

RECURSIVE Chars2Str(_)
Chars2Str(cs) == IF cs = <<>> THEN "" ELSE Head(cs) \o Chars2Str(Tail(cs))

TextNone == [t |-> "None", cs |-> <<>>]
TextStr(cs) == [t |-> "str", cs |-> cs]
Texts == {TextNone} \cup {TextStr(cs) : cs \in SeqsUpTo(TextChars, MaxTextLen)}

\* Variant of text_given that forgets strip(): whitespace counts as text.
text_given_nostrip(t) == t.t = "str" /\ t.cs # <<>>

\* line 182: user_text and user_text.strip()
text_given(t) == t.t = "str" /\ t.cs # <<>> /\ strip(t.cs) # <<>>

(***************************************************************************)
(* Paths.  os.path.basename and lower().split('.')[-1] are given by their  *)
(* graph on the paths of the model.                                        *)
(***************************************************************************)
ImageFiles == {"pics/Cat.JPG", "scan.png"}
AudioFiles == {"rec/voice.mp3", "memo.WAV"}
ImagePaths == {None, PyStr("")} \cup {PyStr(p) : p \in ImageFiles}
AudioPaths == {None, PyStr("")} \cup {PyStr(p) : p \in AudioFiles}

basename(p) ==
    CASE p = "pics/Cat.JPG" -> "Cat.JPG"
      [] p = "rec/voice.mp3" -> "voice.mp3"
      [] OTHER -> p

\* path.lower().split('.')[-1]
lower_ext(p) ==
    CASE p = "pics/Cat.JPG" -> "jpg"
      [] p = "scan.png" -> "png"
      [] p = "rec/voice.mp3" -> "mp3"
      [] p = "memo.WAV" -> "wav"
      [] OTHER -> p

(***************************************************************************)
(* base64.b64encode(...).decode('utf-8') on a sequence of bytes.           *)
(***************************************************************************)
B64Alphabet ==
    << "A", "B", "C", "D", "E", "F", "G", "H", "I", "J", "K", "L", "M",
       "N", "O", "P", "Q", "R", "S", "T", "U", "V", "W", "X", "Y", "Z",
       "a", "b", "c", "d", "e", "f", "g", "h", "i", "j", "k", "l", "m",
       "n", "o", "p", "q", "r", "s", "t", "u", "v", "w", "x", "y", "z",
       "0", "1", "2", "3", "4", "5", "6", "7", "8", "9", "+", "/" >>

B64Char(n) == B64Alphabet[n + 1]

RECURSIVE b64encode(_)
b64encode(bs) ==
    IF Len(bs) = 0 THEN ""
    ELSE IF Len(bs) = 1 THEN
        B64Char(bs[1] \div 4) \o B64Char((bs[1] % 4) * 16) \o "=="
    ELSE IF Len(bs) = 2 THEN
        B64Char(bs[1] \div 4)
            \o B64Char((bs[1] % 4) * 16 + bs[2] \div 16)
            \o B64Char((bs[2] % 16) * 4) \o "="
    ELSE
        B64Char(bs[1] \div 4)
            \o B64Char((bs[1] % 4) * 16 + bs[2] \div 16)
            \o B64Char((bs[2] % 16) * 4 + bs[3] \div 64)
            \o B64Char(bs[3] % 64)
            \o b64encode(SubSeq(bs, 4, Len(bs)))

(***************************************************************************)
(* Environment: the file system.                                           *)
(***************************************************************************)
ByteValues == {0, 255}
FileContents == SeqsUpTo(ByteValues, MaxFileLen)

\* open(path, "rb") followed by read(): the bytes, or an OSError
OpenErrors == {"[Errno 13] Permission denied", "[Errno 21] Is a directory"}
OpenOutcomes ==
    {[ok |-> FALSE, err |-> e, data |-> <<>>] : e \in OpenErrors}
        \cup {[ok |-> TRUE, err |-> "", data |-> d] : d \in FileContents}

\* open() succeeds only on a non-empty path
OpenOutcomesFor(path) == {o \in OpenOutcomes : o.ok => Truthy(path)}

\* str(e) of the OSError open() raises
oserror_str(opened, path) == opened.err \o ": '" \o path \o "'"

\* PIL.Image.open(path): size and mode, or an exception
NoImage == [ok |-> FALSE, width |-> 0, height |-> 0, mode |-> ""]
DecodeOutcomes ==
    { NoImage,
      [ok |-> TRUE, width |-> 640, height |-> 480, mode |-> "RGB"],
      [ok |-> TRUE, width |-> 1, height |-> 1, mode |-> "L"] }

(***************************************************************************)
(* Environment: the provider, as seen through requests.post.               *)
(***************************************************************************)
Statuses == {200, 401, 500}
TransportErrors == {"Connection refused"}

\* Shapes of a response body:
\*   notjson   response.json() raises
\*   object    a JSON object with neither "choices" nor "text"
\*   nochoice  {"choices": []}
\*   content   {"choices": [{"message": {"content": val}}]}
\*   text      {"text": val}
Body(shape, val) == [shape |-> shape, val |-> val]
OkBodies ==
    {Body("notjson", None), Body("object", None), Body("nochoice", None)}
        \cup {Body("content", v) : v \in {PyStr("hello"), None}}
        \cup {Body("text", v) : v \in {PyStr("hi there"), None}}
ErrorBody == Body("object", None)

NoResponse == [kind |-> "none", msg |-> "", status_code |-> 0, body |-> ErrorBody]
Responses ==
    {[kind |-> "exc", msg |-> m, status_code |-> 0, body |-> ErrorBody] :
        m \in TransportErrors}
        \cup {[kind |-> "http", msg |-> "", status_code |-> 200, body |-> b] :
                b \in OkBodies}
        \cup {[kind |-> "http", msg |-> "", status_code |-> s, body |-> ErrorBody] :
                s \in Statuses \ {200}}

\* response.json()["choices"][0]["message"]["content"]
json_choices_content(body) ==
    CASE body.shape = "notjson" -> Err("Expecting value: line 1 column 1 (char 0)")
      [] body.shape = "nochoice" -> Err("list index out of range")
      [] body.shape = "content" -> Ok(body.val)
      [] OTHER -> Err("'choices'")

\* Variant of json_get_text that indexes result["text"] with no default.
json_get_text_nodefault(body) ==
    CASE body.shape = "notjson" -> Err("Expecting value: line 1 column 1 (char 0)")
      [] body.shape = "text" -> Ok(body.val)
      [] OTHER -> Err("'text'")

\* response.json().get("text", "No text transcribed")
json_get_text(body) ==
    CASE body.shape = "notjson" -> Err("Expecting value: line 1 column 1 (char 0)")
      [] body.shape = "text" -> Ok(body.val)
      [] OTHER -> Ok(PyStr("No text transcribed"))

NoRequest ==
    [kind |-> "none", url |-> "", model |-> "", content |-> "", image_url |-> "",
     file |-> "", mime |-> "", max_tokens |-> 0, temperature |-> "",
     content_type |-> ""]

base_url == "https://api.groq.com/openai/v1"

(***************************************************************************)
(* encode_image, lines 17-24.                                              *)
(***************************************************************************)
encode_image(opened) ==
    IF opened.ok THEN Returned(PyStr(b64encode(opened.data)))
    ELSE Returned(None)

(***************************************************************************)
(* generate_image_caption, lines 26-90.                                    *)
(***************************************************************************)
\* Variant of caption_absent that forgets os.path.exists.
caption_absent_noexists(path, exists) == ~Truthy(path)

\* line 29: not img_path or not os.path.exists(img_path)
caption_absent(path, exists) == ~Truthy(path) \/ ~exists

\* line 34: not base64_image
encoding_failed(base64_image) == ~Truthy(base64_image)

\* lines 38-40
image_format(path) ==
    LET fmt == lower_ext(path) IN IF fmt = "jpg" THEN "jpeg" ELSE fmt

\* lines 43-70
caption_payload(path, base64_image) ==
    [kind |-> "vision",
     url |-> base_url \o "/chat/completions",
     model |-> "meta-llama/llama-4-scout-17b-16e-instruct",
     content |-> "Please describe this image in detail. What do you see?",
     image_url |-> "data:image/" \o image_format(path) \o ";base64," \o base64_image,
     file |-> "", mime |-> "",
     max_tokens |-> 500, temperature |-> "0.3",
     content_type |-> "application/json"]

\* Variant of caption_fallback that never reports size and mode.
caption_fallback_nosize(path, decoded) ==
    Returned(PyStr("Image uploaded: " \o basename(path)
        \o ". Vision analysis temporarily unavailable."))

\* lines 80-86
caption_fallback(path, decoded) ==
    IF decoded.ok
    THEN Returned(PyStr("Image uploaded: " \o basename(path)
            \o " (Size: " \o ToString(decoded.width) \o "x"
            \o ToString(decoded.height) \o ", Mode: " \o decoded.mode
            \o "). Vision analysis temporarily unavailable."))
    ELSE Returned(PyStr("Image uploaded: " \o basename(path)
            \o ". Vision analysis temporarily unavailable."))

\* lines 88-90
caption_except(e) == Returned(PyStr("Error processing image: " \o e))

\* lines 66-90, from the moment requests.post returns or raises
caption_on_response(path, resp, decoded) ==
    IF resp.kind = "exc" THEN caption_except(resp.msg)
    ELSE IF resp.status_code = 200 THEN
        LET c == json_choices_content(resp.body)
        IN  IF c.ok THEN Returned(c.v) ELSE caption_except(c.v.s)
    ELSE caption_fallback(path, decoded)

(***************************************************************************)
(* speech_to_text, lines 92-131.                                           *)
(***************************************************************************)
\* line 95: not audio_path or not os.path.exists(audio_path)
audio_absent(path, exists) == ~Truthy(path) \/ ~exists

\* lines 103-110
mime_type(path) ==
    LET audio_format == lower_ext(path)
    IN  CASE audio_format = "mp3" -> "audio/mpeg"
          [] audio_format = "wav" -> "audio/wav"
          [] audio_format = "ogg" -> "audio/ogg"
          [] OTHER -> "audio/" \o audio_format

\* lines 100-120
\* The file goes out as the open file object; requests reads it.
stt_payload(path) ==
    [kind |-> "transcription",
     url |-> base_url \o "/audio/transcriptions",
     model |-> "whisper-large-v3",
     content |-> "json", image_url |-> "",
     file |-> basename(path), mime |-> mime_type(path),
     max_tokens |-> 0, temperature |-> "",
     content_type |-> ""]

\* lines 129-131
stt_except(e) == Returned(PyStr("Error processing audio: " \o e))

\* lines 120-131, from the moment requests.post returns or raises
stt_on_response(resp) ==
    IF resp.kind = "exc" THEN stt_except(resp.msg)
    ELSE IF resp.status_code = 200 THEN
        LET t == json_get_text(resp.body)
        IN  IF t.ok THEN Returned(t.v) ELSE stt_except(t.v.s)
    ELSE Returned(PyStr("Speech-to-text error: " \o ToString(resp.status_code)))

(***************************************************************************)
(* query_groq_llm, lines 133-163.                                          *)
(***************************************************************************)
\* lines 136-152
llm_payload(p) ==
    [kind |-> "completion",
     url |-> base_url \o "/chat/completions",
     model |-> "llama-3.3-70b-versatile",
     content |-> p, image_url |-> "",
     file |-> "", mime |-> "",
     max_tokens |-> 1000, temperature |-> "0.7",
     content_type |-> "application/json"]

\* Variant of llm_except that lets the exception go.
llm_except_reraise(e) == Raised(e)

\* lines 161-163
llm_except(e) == Returned(PyStr("Error with LLM: " \o e))

\* Variant of llm_on_response that forgets the status check.
llm_on_response_nostatus(resp) ==
    IF resp.kind = "exc" THEN llm_except(resp.msg)
    ELSE LET c == json_choices_content(resp.body)
         IN  IF c.ok THEN Returned(c.v) ELSE llm_except(c.v.s)

\* lines 148-163, from the moment requests.post returns or raises
llm_on_response(resp) ==
    IF resp.kind = "exc" THEN llm_except(resp.msg)
    ELSE IF resp.status_code = 200 THEN
        LET c == json_choices_content(resp.body)
        IN  IF c.ok THEN Returned(c.v) ELSE llm_except(c.v.s)
    ELSE Returned(PyStr("LLM error: " \o ToString(resp.status_code)))

(***************************************************************************)
(* multimodal_chat, lines 165-196.                                         *)
(***************************************************************************)
\* Variant of append that inserts at the front.
append_front(parts, s) == <<s>> \o parts

\* Variant of append that replaces the list.
append_overwrite(parts, s) == <<s>>

\* list.append, lines 173, 179, 183
append(parts, s) == Append(parts, s)

\* "\n".join(parts)
RECURSIVE join(_)
join(parts) ==
    IF parts = <<>> THEN ""
    ELSE IF Len(parts) = 1 THEN parts[1]
    ELSE parts[1] \o "\n" \o join(Tail(parts))

\* Variant of combined_prompt with a single newline before the instruction.
combined_prompt_one_newline(parts) ==
    join(parts) \o "\nPlease provide a helpful response based on the above information:"

\* lines 190-191
combined_prompt(parts) ==
    join(parts) \o "\n\nPlease provide a helpful response based on the above information:"

\* line 186: not context_parts
no_input(parts) == parts = <<>>

NoInputMessage == "Please provide some input (text, image, or audio)!"

(***************************************************************************)
(* The state machine.                                                      *)
(***************************************************************************)
Methods == {"encode_image", "generate_image_caption", "speech_to_text",
            "query_groq_llm", "multimodal_chat"}

\* Prompts a caller hands to query_groq_llm directly.
Prompts == {"", "hi"}

args == <<user_text, user_image_path, user_audio_path>>
locals == <<context_parts, caption, spoken_text, chat_response>>
http == <<request, response, wire>>

Init ==
    /\ top = "none"
    /\ pc = "idle"
    /\ user_text = TextNone
    /\ user_image_path = None
    /\ user_audio_path = None
    /\ img_path = None
    /\ audio_path = None
    /\ prompt = ""
    /\ context_parts = <<>>
    /\ caption = None
    /\ spoken_text = None
    /\ chat_response = None
    /\ request = NoRequest
    /\ response = NoResponse
    /\ ret = NoResult
    /\ result = NoResult
    /\ img = NoImage
    /\ wire = <<>>
    /\ fs_log = <<>>

Sent(kind) == [ev |-> "request", kind |-> kind]
Received(kind) == [ev |-> "response", kind |-> kind]
\* got: what a read of the opened file gave ("empty" or "bytes"), "" when
\* the call read nothing
FsCall(call, path, ok, got) ==
    [call |-> call, path |-> path, ok |-> ok, got |-> got]

Got(opened) ==
    IF ~opened.ok THEN "" ELSE IF opened.data = <<>> THEN "empty" ELSE "bytes"

\* A method ends with outcome o.  Called by the user, the outcome is the
\* caller's; called from multimodal_chat (which has no try block), a return
\* resumes multimodal_chat at cont and an exception leaves multimodal_chat.
ReturnFrom(method, o, cont) ==
    /\ ret' = o
    /\ IF top = method \/ o.kind = "raise"
       THEN result' = o /\ pc' = "done"
       ELSE result' = result /\ pc' = cont

----------------------------------------------------------------------------
\* The caller invokes a public method.

Call_encode_image(path) ==
    /\ pc = "idle"
    /\ top' = "encode_image"
    /\ img_path' = path
    /\ pc' = "encode_image"
    /\ UNCHANGED <<args, audio_path, prompt, locals, http, ret, result, fs_log, img>>

Call_generate_image_caption(path) ==
    /\ pc = "idle"
    /\ top' = "generate_image_caption"
    /\ img_path' = path
    /\ pc' = "caption_begin"
    /\ UNCHANGED <<args, audio_path, prompt, locals, http, ret, result, fs_log, img>>

Call_speech_to_text(path) ==
    /\ pc = "idle"
    /\ top' = "speech_to_text"
    /\ audio_path' = path
    /\ pc' = "stt_begin"
    /\ UNCHANGED <<args, img_path, prompt, locals, http, ret, result, fs_log, img>>

Call_query_groq_llm(p) ==
    /\ pc = "idle"
    /\ top' = "query_groq_llm"
    /\ prompt' = p
    /\ pc' = "llm_begin"
    /\ UNCHANGED <<args, img_path, audio_path, locals, http, ret, result, fs_log, img>>

\* lines 165-167
Call_multimodal_chat(text, image, audio) ==
    /\ pc = "idle"
    /\ top' = "multimodal_chat"
    /\ user_text' = text
    /\ user_image_path' = image
    /\ user_audio_path' = audio
    /\ context_parts' = <<>>
    /\ pc' = "mm_image"
    /\ UNCHANGED <<img_path, audio_path, prompt, caption, spoken_text,
                   chat_response, http, ret, result, fs_log, img>>

----------------------------------------------------------------------------
\* encode_image called by the user, lines 17-24
EncodeImage ==
    /\ pc = "encode_image"
    /\ \E opened \in OpenOutcomesFor(img_path) :
        /\ fs_log' = Append(fs_log, FsCall("open", img_path, opened.ok, Got(opened)))
        /\ ReturnFrom("encode_image", encode_image(opened), "done")
    /\ UNCHANGED <<top, args, img_path, audio_path, prompt, locals, http, img>>

----------------------------------------------------------------------------
\* generate_image_caption, lines 28-70: up to the moment the request is sent
CaptionBegin ==
    /\ pc = "caption_begin"
    /\ \E exists \in BOOLEAN, opened \in OpenOutcomes :
        LET base64_image == encode_image(opened).v
            looked == IF Truthy(img_path)
                      THEN <<FsCall("exists", img_path, exists, "")>> ELSE <<>>
            read == <<FsCall("open", img_path, opened.ok, Got(opened))>>
        IN  IF caption_absent(img_path, exists) THEN
                /\ fs_log' = fs_log \o looked
                /\ ReturnFrom("generate_image_caption",
                              Returned(PyStr("No image provided")), "mm_image_ret")
                /\ UNCHANGED http
            ELSE IF encoding_failed(base64_image) THEN
                /\ fs_log' = fs_log \o looked \o read
                /\ ReturnFrom("generate_image_caption",
                              Returned(PyStr("Error encoding image")), "mm_image_ret")
                /\ UNCHANGED http
            ELSE
                /\ fs_log' = fs_log \o looked \o read
                /\ request' = caption_payload(img_path.s, base64_image.s)
                /\ wire' = Append(wire, Sent("vision"))
                /\ pc' = "caption_end"
                /\ UNCHANGED <<response, ret, result>>
    /\ UNCHANGED <<top, args, img_path, audio_path, prompt, locals, img>>

\* generate_image_caption, lines 66-90: requests.post returns or raises
CaptionEnd ==
    /\ pc = "caption_end"
    /\ \E resp \in Responses, decoded \in DecodeOutcomes :
        /\ response' = resp
        /\ wire' = Append(wire, Received("vision"))
        /\ fs_log' = IF resp.kind = "http" /\ resp.status_code # 200
                     THEN Append(fs_log, FsCall("Image.open", img_path, decoded.ok, ""))
                     ELSE fs_log
        /\ img' = IF resp.kind = "http" /\ resp.status_code # 200
                  THEN decoded ELSE img
        /\ ReturnFrom("generate_image_caption",
                      caption_on_response(img_path.s, resp, decoded), "mm_image_ret")
    /\ UNCHANGED <<top, args, img_path, audio_path, prompt, locals, request>>

----------------------------------------------------------------------------
\* speech_to_text, lines 94-120: up to the moment the request is sent
SttBegin ==
    /\ pc = "stt_begin"
    /\ \E exists \in BOOLEAN, opened \in OpenOutcomes :
        LET looked == IF Truthy(audio_path)
                      THEN <<FsCall("exists", audio_path, exists, "")>> ELSE <<>>
            read == <<FsCall("open", audio_path, opened.ok, "")>>
        IN  IF audio_absent(audio_path, exists) THEN
                /\ fs_log' = fs_log \o looked
                /\ ReturnFrom("speech_to_text",
                              Returned(PyStr("No audio provided")), "mm_audio_ret")
                /\ UNCHANGED http
            ELSE IF ~opened.ok THEN
                /\ fs_log' = fs_log \o looked \o read
                /\ ReturnFrom("speech_to_text",
                              stt_except(oserror_str(opened, audio_path.s)),
                              "mm_audio_ret")
                /\ UNCHANGED http
            ELSE
                /\ fs_log' = fs_log \o looked \o read
                /\ request' = stt_payload(audio_path.s)
                /\ wire' = Append(wire, Sent("transcription"))
                /\ pc' = "stt_end"
                /\ UNCHANGED <<response, ret, result>>
    /\ UNCHANGED <<top, args, img_path, audio_path, prompt, locals, img>>

\* speech_to_text, lines 120-131: requests.post returns or raises
SttEnd ==
    /\ pc = "stt_end"
    /\ \E resp \in Responses :
        /\ response' = resp
        /\ wire' = Append(wire, Received("transcription"))
        /\ ReturnFrom("speech_to_text", stt_on_response(resp), "mm_audio_ret")
    /\ UNCHANGED <<top, args, img_path, audio_path, prompt, locals, request, fs_log, img>>

----------------------------------------------------------------------------
\* query_groq_llm, lines 135-152: up to the moment the request is sent
LlmBegin ==
    /\ pc = "llm_begin"
    /\ request' = llm_payload(prompt)
    /\ wire' = Append(wire, Sent("completion"))
    /\ pc' = "llm_end"
    /\ UNCHANGED <<top, args, img_path, audio_path, prompt, locals, response,
                   ret, result, fs_log, img>>

\* query_groq_llm, lines 148-163: requests.post returns or raises
LlmEnd ==
    /\ pc = "llm_end"
    /\ \E resp \in Responses :
        /\ response' = resp
        /\ wire' = Append(wire, Received("completion"))
        /\ ReturnFrom("query_groq_llm", llm_on_response(resp), "mm_llm_ret")
    /\ UNCHANGED <<top, args, img_path, audio_path, prompt, locals, request, fs_log, img>>

----------------------------------------------------------------------------
\* multimodal_chat, lines 170-172: the call of generate_image_caption
MmImage ==
    /\ pc = "mm_image"
    /\ IF Truthy(user_image_path)
       THEN img_path' = user_image_path /\ pc' = "caption_begin"
       ELSE img_path' = img_path /\ pc' = "mm_audio"
    /\ UNCHANGED <<top, args, audio_path, prompt, locals, http, ret, result, fs_log, img>>

\* lines 172-173
MmImageRet ==
    /\ pc = "mm_image_ret"
    /\ caption' = ret.v
    /\ context_parts' = append(context_parts, "Image: " \o Str(ret.v))
    /\ pc' = "mm_audio"
    /\ UNCHANGED <<top, args, img_path, audio_path, prompt, spoken_text,
                   chat_response, http, ret, result, fs_log, img>>

\* lines 176-178: the call of speech_to_text
MmAudio ==
    /\ pc = "mm_audio"
    /\ IF Truthy(user_audio_path)
       THEN audio_path' = user_audio_path /\ pc' = "stt_begin"
       ELSE audio_path' = audio_path /\ pc' = "mm_text"
    /\ UNCHANGED <<top, args, img_path, prompt, locals, http, ret, result, fs_log, img>>

\* lines 178-179
MmAudioRet ==
    /\ pc = "mm_audio_ret"
    /\ spoken_text' = ret.v
    /\ context_parts' = append(context_parts, "Audio: " \o Str(ret.v))
    /\ pc' = "mm_text"
    /\ UNCHANGED <<top, args, img_path, audio_path, prompt, caption,
                   chat_response, http, ret, result, fs_log, img>>

\* lines 182-194: up to the call of query_groq_llm
MmText ==
    /\ pc = "mm_text"
    /\ LET parts == IF text_given(user_text)
                    THEN append(context_parts,
                                "User typed: " \o Chars2Str(user_text.cs))
                    ELSE context_parts
       IN  /\ context_parts' = parts
           /\ IF no_input(parts)
              THEN /\ result' = Returned(PyStr(NoInputMessage))
                   /\ pc' = "done"
                   /\ prompt' = prompt
              ELSE /\ result' = result
                   /\ pc' = "llm_begin"
                   /\ prompt' = combined_prompt(parts)
    /\ UNCHANGED <<top, args, img_path, audio_path, caption, spoken_text,
                   chat_response, http, ret, fs_log, img>>

\* lines 194-196
MmLlmRet ==
    /\ pc = "mm_llm_ret"
    /\ chat_response' = ret.v
    /\ result' = Returned(ret.v)
    /\ pc' = "done"
    /\ UNCHANGED <<top, args, img_path, audio_path, prompt, context_parts,
                   caption, spoken_text, http, ret, fs_log, img>>

----------------------------------------------------------------------------
\* The caller has the outcome; nothing persists across calls.
Finish ==
    /\ pc = "done"
    /\ top' = "none"
    /\ pc' = "idle"
    /\ user_text' = TextNone
    /\ user_image_path' = None
    /\ user_audio_path' = None
    /\ img_path' = None
    /\ audio_path' = None
    /\ prompt' = ""
    /\ context_parts' = <<>>
    /\ caption' = None
    /\ spoken_text' = None
    /\ chat_response' = None
    /\ request' = NoRequest
    /\ response' = NoResponse
    /\ ret' = NoResult
    /\ result' = NoResult
    /\ img' = NoImage
    /\ wire' = <<>>
    /\ fs_log' = <<>>

CallEncodeImage == \E p \in ImagePaths : Call_encode_image(p)
CallGenerateImageCaption == \E p \in ImagePaths : Call_generate_image_caption(p)
CallSpeechToText == \E p \in AudioPaths : Call_speech_to_text(p)
CallQueryGroqLlm == \E p \in Prompts : Call_query_groq_llm(p)
CallMultimodalChat ==
    \E t \in Texts, i \in ImagePaths, a \in AudioPaths : Call_multimodal_chat(t, i, a)

Next ==
    \/ CallEncodeImage
    \/ CallGenerateImageCaption
    \/ CallSpeechToText
    \/ CallQueryGroqLlm
    \/ CallMultimodalChat
    \/ EncodeImage
    \/ CaptionBegin
    \/ CaptionEnd
    \/ SttBegin
    \/ SttEnd
    \/ LlmBegin
    \/ LlmEnd
    \/ MmImage
    \/ MmImageRet
    \/ MmAudio
    \/ MmAudioRet
    \/ MmText
    \/ MmLlmRet
    \/ Finish

Spec == Init /\ [][Next]_vars

(***************************************************************************)
(* Properties.                                                             *)
(***************************************************************************)
\* Number of requests of a kind issued so far in this invocation.
RequestsOf(kind) == Cardinality({i \in 1..Len(wire) : wire[i] = Sent(kind)})

\* Nothing of a kind was put on, or came off, the wire.
Silent(kind) == \A i \in 1..Len(wire) : wire[i].kind # kind

Logged(entry) == \E i \in 1..Len(fs_log) : fs_log[i] = entry

\* open(path) was called and succeeded (ok) or failed (~ok).
Opened(path, ok) ==
    \E i \in 1..Len(fs_log) :
        fs_log[i].call = "open" /\ fs_log[i].path = path /\ fs_log[i].ok = ok

\* The file at path was never opened (os.path.exists alone may have run).
Unread(path) ==
    \A i \in 1..Len(fs_log) : fs_log[i].path = path => fs_log[i].call = "exists"

\* user_text is absent, empty or whitespace only.
Blank(t) ==
    t.t = "None" \/ \A i \in 1..Len(t.cs) : t.cs[i] \in {" ", "\t", "\n", "\r", "\f"}

Instruction == "Please provide a helpful response based on the above information:"

\* Fragments joined by single newlines, folded from the left.
Joined(parts) ==
    LET F[i \in 1..Len(parts)] ==
            IF i = 1 THEN parts[1] ELSE F[i - 1] \o "\n" \o parts[i]
    IN  F[Len(parts)]

AfterCaption == (top = "generate_image_caption" /\ pc = "done") \/ pc = "mm_image_ret"
AfterStt == (top = "speech_to_text" /\ pc = "done") \/ pc = "mm_audio_ret"
AfterLlm == (top = "query_groq_llm" /\ pc = "done") \/ pc = "mm_llm_ret"

----------------------------------------------------------------------------
\* C1: when imagePath and audioPath are empty or absent and text is absent,
\* empty or whitespace only, multimodal_chat returns exactly
\* "Please provide some input (text, image, or audio)!" and no request of
\* any kind is ever issued.
C1_AllAbsent ==
    /\ top = "multimodal_chat"
    /\ ~Truthy(user_image_path)
    /\ ~Truthy(user_audio_path)
    /\ Blank(user_text)

C1_NoInputNoRemoteCall ==
    C1_AllAbsent =>
        /\ wire = <<>>
        /\ request = NoRequest
        /\ pc \in {"mm_image", "mm_audio", "mm_text", "done"}
        /\ pc = "done" =>
            result = Returned(PyStr("Please provide some input (text, image, or audio)!"))

C1_Witness ==
    /\ C1_AllAbsent
    /\ pc = "done"
    /\ user_text = TextStr(<<" ", " ">>)
    /\ user_image_path = PyStr("")
    /\ user_audio_path = None

----------------------------------------------------------------------------
\* C2: with at least one fragment collected, the prompt multimodal_chat
\* sends to query_groq_llm is the fragments joined by single newlines
\* followed by "\n\n" and the instruction, and multimodal_chat returns
\* exactly what query_groq_llm returned, error strings included; text "hi"
\* alone, answered "hello", sends "User typed: hi\n\nPlease provide ..."
\* and returns "hello".
C2_PromptAndReturn ==
    top = "multimodal_chat" =>
        /\ (pc \in {"llm_end", "mm_llm_ret"} \/ (pc = "done" /\ context_parts # <<>>)) =>
            /\ context_parts # <<>>
            /\ request.kind = "completion"
            /\ request.content = Joined(context_parts) \o "\n\n" \o Instruction
        /\ (pc = "done" /\ context_parts # <<>>) =>
            /\ result.kind = "return"
            /\ result = ret
            /\ wire[Len(wire)] = Received("completion")
        /\ ( /\ pc = "done"
             /\ user_text = TextStr(<<"h", "i">>)
             /\ ~Truthy(user_image_path)
             /\ ~Truthy(user_audio_path)
             /\ response.kind = "http"
             /\ response.status_code = 200
             /\ response.body = Body("content", PyStr("hello")) ) =>
            /\ request.content =
                 "User typed: hi\n\nPlease provide a helpful response based on the above information:"
            /\ result = Returned(PyStr("hello"))

C2_Witness ==
    /\ top = "multimodal_chat"
    /\ pc = "done"
    /\ Len(context_parts) = 3
    /\ result = Returned(PyStr("LLM error: 500"))

----------------------------------------------------------------------------
\* C3: in multimodal_chat the requests issued are a subsequence of (vision,
\* transcription, completion), each at most once and each only after the
\* previous one was answered; and in the prompt the "Image:" fragment comes
\* before the "Audio:" fragment, which comes before the "User typed:"
\* fragment, whatever the provider answered.
C3_Rank(kind) ==
    CASE kind = "vision" -> 1
      [] kind = "transcription" -> 2
      [] kind = "completion" -> 3
      [] OTHER -> 0

C3_SequentialOrdered ==
    top = "multimodal_chat" =>
        /\ \A i \in 1..Len(wire) :
            /\ C3_Rank(wire[i].kind) > 0
            /\ wire[i].ev = IF i % 2 = 1 THEN "request" ELSE "response"
            /\ i % 2 = 0 => wire[i].kind = wire[i - 1].kind
        /\ \A i, j \in 1..Len(wire) :
            (i < j /\ wire[i].ev = "request" /\ wire[j].ev = "request")
                => C3_Rank(wire[i].kind) < C3_Rank(wire[j].kind)
        /\ request.kind = "completion" =>
            request.content =
                (IF Truthy(user_image_path)
                    THEN "Image: " \o Str(caption) \o "\n" ELSE "")
                \o (IF Truthy(user_audio_path)
                    THEN "Audio: " \o Str(spoken_text) \o "\n" ELSE "")
                \o (IF ~Blank(user_text)
                    THEN "User typed: " \o Chars2Str(user_text.cs) \o "\n" ELSE "")
                \o "\n" \o Instruction

C3_Witness ==
    /\ top = "multimodal_chat"
    /\ pc = "done"
    /\ wire = <<Sent("vision"), Received("vision"),
                Sent("transcription"), Received("transcription"),
                Sent("completion"), Received("completion")>>
    /\ Len(context_parts) = 3

----------------------------------------------------------------------------
C4_NullField ==
    /\ response.kind = "http"
    /\ response.status_code = 200
    /\ response.body.val = None
    /\ response.body.shape = IF top = "speech_to_text" THEN "text" ELSE "content"

----------------------------------------------------------------------------
\* C5: for an empty or absent path, and for a path naming a file that does
\* not exist, generate_image_caption returns exactly "No image provided"
\* and speech_to_text exactly "No audio provided", and the file is never
\* opened and no request is issued for it.
C5_Absent(path) == ~Truthy(path) \/ Logged(FsCall("exists", path, FALSE, ""))

C5_GuardFirst ==
    /\ (AfterCaption /\ C5_Absent(img_path)) =>
        /\ ret = Returned(PyStr("No image provided"))
        /\ Unread(img_path)
        /\ Silent("vision")
        /\ wire = <<>>
    /\ (AfterStt /\ C5_Absent(audio_path)) =>
        /\ ret = Returned(PyStr("No audio provided"))
        /\ Unread(audio_path)
        /\ Silent("transcription")
        /\ top = "speech_to_text" => wire = <<>>

C5_Witness ==
    /\ top = "multimodal_chat"
    /\ pc = "mm_audio_ret"
    /\ user_image_path = PyStr("scan.png")
    /\ user_audio_path = PyStr("memo.WAV")
    /\ fs_log = <<FsCall("exists", PyStr("scan.png"), FALSE, ""),
                  FsCall("exists", PyStr("memo.WAV"), FALSE, "")>>
    /\ context_parts = <<"Image: No image provided">>
    /\ ret = Returned(PyStr("No audio provided"))

----------------------------------------------------------------------------
\* C6: when the vision request is answered with a status other than 200,
\* generate_image_caption returns "Image uploaded: <basename> (Size:
\* <w>x<h>, Mode: <mode>). Vision analysis temporarily unavailable." if
\* the file decodes locally and "Image uploaded: <basename>. Vision
\* analysis temporarily unavailable." if it does not, never a status-coded
\* string, and it issues no second request.
C6_Basename == IF img_path.s = "pics/Cat.JPG" THEN "Cat.JPG" ELSE img_path.s

C6_Fallback ==
    (AfterCaption /\ response.kind = "http" /\ response.status_code # 200) =>
        /\ fs_log[Len(fs_log)] = FsCall("Image.open", img_path, img.ok, "")
        /\ ret = Returned(PyStr(
                IF img.ok
                THEN "Image uploaded: " \o C6_Basename
                        \o " (Size: " \o ToString(img.width) \o "x"
                        \o ToString(img.height) \o ", Mode: " \o img.mode
                        \o "). Vision analysis temporarily unavailable."
                ELSE "Image uploaded: " \o C6_Basename
                        \o ". Vision analysis temporarily unavailable."))
        /\ (img_path.s = "pics/Cat.JPG" /\ img.ok /\ img.width = 640) =>
            ret.v.s = "Image uploaded: Cat.JPG (Size: 640x480, Mode: RGB). Vision analysis temporarily unavailable."
        /\ wire = <<Sent("vision"), Received("vision")>>

C6_Witness ==
    /\ top = "generate_image_caption"
    /\ pc = "done"
    /\ img_path = PyStr("pics/Cat.JPG")
    /\ response.kind = "http"
    /\ response.status_code = 500
    /\ img.ok
    /\ img.width = 640

----------------------------------------------------------------------------
\* C7: query_groq_llm issues exactly one chat-completion request per call;
\* a 200 answer with choices[0].message.content = X returns exactly X, a
\* status s other than 200 returns "LLM error: <s>", and an exception
\* (transport failure, malformed 200 body) returns "Error with LLM: <message>".
C7_Mapping ==
    AfterLlm =>
        /\ RequestsOf("completion") = 1
        /\ wire[Len(wire)] = Received("completion")
        /\ request.kind = "completion"
        /\ request.content = prompt
        /\ response.kind = "exc" =>
            ret = Returned(PyStr("Error with LLM: " \o response.msg))
        /\ (response.kind = "http" /\ response.status_code # 200) =>
            ret = Returned(PyStr("LLM error: " \o ToString(response.status_code)))
        /\ (response.kind = "http" /\ response.status_code = 500) =>
            ret = Returned(PyStr("LLM error: 500"))
        /\ (response.kind = "http" /\ response.status_code = 200) =>
            ret = CASE response.body.shape = "content" ->
                         Returned(response.body.val)
                    [] response.body.shape = "nochoice" ->
                         Returned(PyStr("Error with LLM: list index out of range"))
                    [] response.body.shape = "notjson" ->
                         Returned(PyStr("Error with LLM: Expecting value: line 1 column 1 (char 0)"))
                    [] OTHER ->
                         Returned(PyStr("Error with LLM: 'choices'"))

C7_Witness ==
    /\ top = "query_groq_llm"
    /\ pc = "done"
    /\ response.kind = "http"
    /\ response.status_code = 200
    /\ response.body = Body("content", PyStr("hello"))
    /\ result = Returned(PyStr("hello"))

----------------------------------------------------------------------------
\* How speech_to_text maps the answer to its transcription request.
C8_Outcome ==
    /\ response.kind = "exc" =>
        ret = Returned(PyStr("Error processing audio: " \o response.msg))
    /\ (response.kind = "http" /\ response.status_code # 200) =>
        ret = Returned(PyStr("Speech-to-text error: " \o ToString(response.status_code)))
    /\ (response.kind = "http" /\ response.status_code = 401) =>
        ret = Returned(PyStr("Speech-to-text error: 401"))
    /\ (response.kind = "http" /\ response.status_code = 200) =>
        ret = CASE response.body.shape = "text" ->
                     Returned(response.body.val)
                [] response.body.shape = "notjson" ->
                     Returned(PyStr("Error processing audio: Expecting value: line 1 column 1 (char 0)"))
                [] OTHER ->
                     Returned(PyStr("No text transcribed"))

C8_Existing == Truthy(audio_path) /\ Logged(FsCall("exists", audio_path, TRUE, ""))

\* C8 as stated: for an existing audio file speech_to_text issues exactly
\* one transcription request and maps its outcome: 200 gives the text field
\* or "No text transcribed", a status s other than 200 gives
\* "Speech-to-text error: <s>", an exception "Error processing audio: <message>".
C8_ExistingFileOneRequest ==
    (AfterStt /\ C8_Existing) =>
        /\ RequestsOf("transcription") = 1
        /\ C8_Outcome

\* C8 as amended: that holds for an existing audio file that open() can
\* open; when open() fails on an existing file, no request is issued and
\* "Error processing audio: <message of the OSError>" is returned.
C8_OpenedFileOneRequest ==
    (AfterStt /\ C8_Existing) =>
        IF Opened(audio_path, TRUE)
        THEN /\ RequestsOf("transcription") = 1
             /\ wire[Len(wire)] = Received("transcription")
             /\ request.kind = "transcription"
             /\ C8_Outcome
        ELSE /\ Silent("transcription")
             /\ Opened(audio_path, FALSE)
             /\ \E e \in {"[Errno 13] Permission denied", "[Errno 21] Is a directory"} :
                    ret = Returned(PyStr("Error processing audio: " \o e
                                         \o ": '" \o audio_path.s \o "'"))

C8_Witness ==
    /\ top = "speech_to_text"
    /\ pc = "done"
    /\ C8_Existing
    /\ Opened(audio_path, TRUE)
    /\ response.kind = "http"
    /\ response.status_code = 200
    /\ response.body.shape = "object"
    /\ result = Returned(PyStr("No text transcribed"))

----------------------------------------------------------------------------
\* C9: for an existing image file generate_image_caption returns "Error
\* encoding image", with no request issued, if encode_image fails on it and
\* only then: every file encode_image reads successfully, whatever its
\* content or length, goes on to the vision request.
C9_Existing == Truthy(img_path) /\ Logged(FsCall("exists", img_path, TRUE, ""))

C9_EncodingErrorOnlyOnFailure ==
    C9_Existing =>
        /\ Opened(img_path, FALSE) =>
            /\ Silent("vision")
            /\ AfterCaption => ret = Returned(PyStr("Error encoding image"))
        /\ Opened(img_path, TRUE) =>
            /\ RequestsOf("vision") = 1
            /\ AfterCaption => ret # Returned(PyStr("Error encoding image"))

----------------------------------------------------------------------------
\* C10: whenever imagePath is non-empty, audioPath is non-empty or text is
\* non-blank, multimodal_chat issues exactly one text-completion request,
\* and the fragment of each supplied path is in the prompt even when the
\* sub-call gave a sentinel, fallback or error string; a non-existent
\* imagePath alone sends a prompt beginning "Image: No image provided".
C10_SomeInput ==
    /\ top = "multimodal_chat"
    /\ (Truthy(user_image_path) \/ Truthy(user_audio_path) \/ ~Blank(user_text))

C10_Supplied ==
    (IF Truthy(user_image_path) THEN 1 ELSE 0)
        + (IF Truthy(user_audio_path) THEN 1 ELSE 0)
        + (IF ~Blank(user_text) THEN 1 ELSE 0)

C10_FinalCallAlways ==
    (C10_SomeInput /\ pc = "done") =>
        /\ result.kind = "return"
        /\ RequestsOf("completion") = 1
        /\ request.kind = "completion"
        /\ Len(context_parts) = C10_Supplied
        /\ Truthy(user_image_path) =>
            \E i \in 1..Len(context_parts) :
                context_parts[i] = "Image: " \o Str(caption)
        /\ Truthy(user_audio_path) =>
            \E i \in 1..Len(context_parts) :
                context_parts[i] = "Audio: " \o Str(spoken_text)
        /\ ( /\ Logged(FsCall("exists", user_image_path, FALSE, ""))
             /\ ~Truthy(user_audio_path)
             /\ Blank(user_text) ) =>
            request.content =
                "Image: No image provided\n\nPlease provide a helpful response based on the above information:"

C10_Witness ==
    /\ top = "multimodal_chat"
    /\ pc = "done"
    /\ user_image_path = PyStr("scan.png")
    /\ user_audio_path = None
    /\ user_text = TextNone
    /\ fs_log = <<FsCall("exists", PyStr("scan.png"), FALSE, "")>>
    /\ caption = PyStr("No image provided")
    /\ wire = <<Sent("completion"), Received("completion")>>
====
